---- MODULE Spec2Model ----
(***************************************************************************)
(* A model of CustomList (src/list.rs): the menu tree, the visit stack,    *)
(* the list selection, the filter and the preview window, driven by the    *)
(* public operations filter, reset_selection and handle_key.               *)
(*                                                                         *)
(* Strings that the code inspects (node names, filter queries) are         *)
(* sequences of code points, so that to_lowercase, contains and cmp are    *)
(* computed and not assumed.  An Option is a sequence of length <= 1.      *)
(*                                                                         *)
(* draw is not an action of its own: its call of filter is the action      *)
(* Filter, the rows it builds are item_list, and what the list widget does *)
(* with list_state while rendering is the widget library's code.           *)
(***************************************************************************)
EXTENDS Integers, Sequences, FiniteSets, TLC

VARIABLES
  visit_stack,            \* Vec<NodeId>
  selected,               \* list_state.selected(): Option<usize>
  preview_window_state,   \* Option<PreviewWindowState>
  filter_query,           \* String
  filtered_items,         \* Vec<ListNode>
  result,                 \* what the last operation returned: Option<Command>
  last,                   \* the last operation and, for handle_key, its event
  aborted,                \* the process has panicked
  round_trip              \* history: the state the open preview was opened from

vars == <<visit_stack, selected, preview_window_state, filter_query,
          filtered_items, result, last, aborted, round_trip>>

\* ------------------------------------------------------------------ bounds

\* The largest selection index the model follows (only the wrapped
\* `count - 1` of try_scroll_down lets the index grow without a limit).
MaxSelected == 11

\* The largest number of lines of a previewed script file.
MaxLines == 3

\* The longest query, over QueryAlphabet, that SpecFilter gives to filter.
MaxQueryLen == 2

\* ----------------------------------------------------------------- helpers

None == <<>>

Some(x) == <<x>>

IsSome(o) == o # <<>>

Unwrap(o) == o[1]

Min(a, b) == IF a <= b THEN a ELSE b

\* ---------------------------------------------------------------- Command

CommandNone == [kind |-> "None", arg |-> ""]

LocalFile(path) == [kind |-> "LocalFile", arg |-> path]

Raw(cmd) == [kind |-> "Raw", arg |-> cmd]

\* ------------------------------------------------------------ the menu tree
\* Node identities are 1..14 in the order in which tree! creates the nodes.

tree_name ==
  << <<114,111,111,116>>,                                       \* "root"
     <<83,121,115,116,101,109,32,83,101,116,117,112>>,          \* "System Setup"
     <<66,117,105,108,100,32,80,114,101,114,101,113,117,105,115,105,116,101,115>>,
                                                                \* "Build Prerequisites"
     <<71,97,109,105,110,103,32,68,101,112,101,110,100,101,110,99,105,101,115>>,
                                                                \* "Gaming Dependencies"
     <<71,108,111,98,97,108,32,84,104,101,109,101>>,            \* "Global Theme"
     <<83,101,99,117,114,105,116,121>>,                         \* "Security"
     <<70,105,114,101,119,97,108,108,32,66,97,115,101,108,105,110,101,115,32,40,67,84,84,41>>,
                                                                \* "Firewall Baselines (CTT)"
     <<65,112,112,108,105,99,97,116,105,111,110,115,32,83,101,116,117,112>>,
                                                                \* "Applications Setup"
     <<65,108,97,99,114,105,116,116,121,32,83,101,116,117,112>>, \* "Alacritty Setup"
     <<66,97,115,104,32,80,114,111,109,112,116,32,83,101,116,117,112>>,
                                                                \* "Bash Prompt Setup"
     <<75,105,116,116,121,32,83,101,116,117,112>>,              \* "Kitty Setup"
     <<78,101,111,118,105,109,32,83,101,116,117,112>>,          \* "Neovim Setup"
     <<82,111,102,105,32,83,101,116,117,112>>,                  \* "Rofi Setup"
     <<70,117,108,108,32,83,121,115,116,101,109,32,85,112,100,97,116,101>>
                                                                \* "Full System Update"
  >>

tree_command ==
  << CommandNone,
     CommandNone,
     LocalFile("system-setup/1-compile-setup.sh"),
     LocalFile("system-setup/2-gaming-setup.sh"),
     LocalFile("system-setup/3-global-theme.sh"),
     CommandNone,
     LocalFile("security/firewall-baselines.sh"),
     CommandNone,
     LocalFile("applications-setup/alacritty-setup.sh"),
     Raw("bash -c \"$(curl -s https://raw.githubusercontent.com/ChrisTitusTech/mybash/main/setup.sh)\""),
     LocalFile("applications-setup/kitty-setup.sh"),
     Raw("bash -c \"$(curl -s https://raw.githubusercontent.com/ChrisTitusTech/neovim/main/setup.sh)\""),
     LocalFile("applications-setup/rofi-setup.sh"),
     LocalFile("system-update.sh") >>

tree_children ==
  << <<2, 6, 8, 14>>,
     <<3, 4, 5>>, <<>>, <<>>, <<>>,
     <<7>>, <<>>,
     <<9, 10, 11, 12, 13>>, <<>>, <<>>, <<>>, <<>>, <<>>,
     <<>> >>

NodeIds == DOMAIN tree_name

root_id == CHOOSE n \in NodeIds : \A m \in NodeIds : \A i \in DOMAIN tree_children[m] : tree_children[m][i] # n

\* node.value(): the ListNode of a node
ListNode(n) == [name |-> tree_name[n], command |-> tree_command[n]]

children(n) == tree_children[n]

\* variant of has_children: no node counts as a directory
has_children_Never(n) == FALSE

has_children(n) == tree_children[n] # <<>>

\* ------------------------------------------------------------ string code

\* char::to_lowercase on the code points the catalog and the queries use
LowerChar(c) == IF c >= 65 /\ c <= 90 THEN c + 32 ELSE c

\* str::to_lowercase
to_lowercase(s) == [i \in 1..Len(s) |-> LowerChar(s[i])]

\* str::contains(pattern): pattern occurs in s as a contiguous substring
contains(s, pat) ==
  \E i \in 0..(Len(s) - Len(pat)) : SubSeq(s, i + 1, i + Len(pat)) = pat

\* str::cmp(a, b) = Less: lexicographic order of the code points
StrLess(a, b) ==
  \E k \in 1..(Min(Len(a), Len(b)) + 1) :
    /\ \A i \in 1..(k - 1) : a[i] = b[i]
    /\ \/ k > Len(a) /\ k <= Len(b)
       \/ k <= Len(a) /\ k <= Len(b) /\ a[k] < b[k]

\* one step of the stable sort: x goes after every item that is not greater
Insert(sorted, x) ==
  LET before == {i \in 1..Len(sorted) : ~StrLess(x.name, sorted[i].name)}
      k == Cardinality(before)
  IN  SubSeq(sorted, 1, k) \o <<x>> \o SubSeq(sorted, k + 1, Len(sorted))

RECURSIVE SortFrom(_, _)
SortFrom(items, acc) ==
  IF items = <<>> THEN acc ELSE SortFrom(Tail(items), Insert(acc, Head(items)))

\* sorted_items of draw: filtered_items.clone() sorted by name (stable)
sorted_items(items) == SortFrom(items, <<>>)

\* ------------------------------------------------------------------ filter

\* variant of FilterLoop: the !has_children() test is forgotten
RECURSIVE FilterLoop_WithGroups(_, _, _)
FilterLoop_WithGroups(stack, items, query_lower) ==
  IF stack = <<>> THEN items
  ELSE LET node_id == stack[Len(stack)]
           rest == SubSeq(stack, 1, Len(stack) - 1)
           hit == contains(to_lowercase(tree_name[node_id]), query_lower)
       IN  FilterLoop_WithGroups(rest \o children(node_id),
                      IF hit THEN Append(items, ListNode(node_id)) ELSE items,
                      query_lower)

\* the `while let Some(node_id) = stack.pop()` loop of filter
RECURSIVE FilterLoop(_, _, _)
FilterLoop(stack, items, query_lower) ==
  IF stack = <<>> THEN items
  ELSE LET node_id == stack[Len(stack)]
           rest == SubSeq(stack, 1, Len(stack) - 1)
           hit == /\ contains(to_lowercase(tree_name[node_id]), query_lower)
                  /\ ~has_children(node_id)
       IN  FilterLoop(rest \o children(node_id),
                      IF hit THEN Append(items, ListNode(node_id)) ELSE items,
                      query_lower)

\* filtered_items after filter(query)
FilterItems(query) == FilterLoop(<<root_id>>, <<>>, to_lowercase(query))

\* --------------------------------------------------------------- the inputs

\* The queries given to filter: the empty query, queries with several
\* matches whose traversal order differs from the sorted order ("setup",
\* "SE" in upper case, "g"), one match ("(ctt)"), a query that matches only a
\* group's name ("security") and one that matches nothing ("zzz").
Queries ==
  { <<>>,
    <<115,101,116,117,112>>,                \* "setup"
    <<83,69>>,                              \* "SE"
    <<103>>,                                \* "g"
    <<40,99,116,116,41>>,                   \* "(ctt)"
    <<115,101,99,117,114,105,116,121>>,     \* "security"
    <<122,122,122>> }                       \* "zzz"

\* The letters of the short queries: s e t u p S g z, the space and "("
QueryAlphabet == {115, 101, 116, 117, 112, 83, 103, 122, 32, 40}

\* Queries, and every query of at most MaxQueryLen letters of QueryAlphabet
RECURSIVE StringsUpTo(_)
StringsUpTo(n) ==
  IF n = 0 THEN {<<>>}
  ELSE StringsUpTo(n - 1)
       \cup {Append(q, c) : q \in StringsUpTo(n - 1), c \in QueryAlphabet}

WideQueries == Queries \cup StringsUpTo(MaxQueryLen)

\* KeyCode: the codes handle_key matches on, and one it does not ("Esc")
KeyCodes == {"j", "Down", "k", "Up", "p", "Enter", "Esc"}

KeyEventKinds == {"Press", "Repeat", "Release"}

KeyEvents == [code : KeyCodes, kind : KeyEventKinds]

\* What read_to_string(..).lines() can yield for a script file that is read
FileTexts == {[i \in 1..n |-> "line"] : n \in 0..MaxLines}

\* cmd.lines() of a Raw command: the catalog's Raw commands hold no line break
RawLines(cmd) == <<cmd>>

\* PreviewWindowState::new
PreviewWindowState(text) == [text |-> text, scroll |-> 0]

\* filter's result for each query, computed once
FilterTable == [query \in WideQueries |-> FilterItems(query)]

\* ------------------------------------------------------------------- state

\* no preview was opened, or an operation other than a key event came since
NoRoundTrip ==
  [phase |-> "none", visit_stack |-> <<>>, filter_query |-> <<>>,
   selected |-> <<>>, keyed |-> FALSE]

Init ==
  /\ round_trip = NoRoundTrip
  /\ visit_stack = <<root_id>>
  /\ selected = Some(0)
  /\ preview_window_state = None
  /\ filter_query = <<>>
  /\ filtered_items = <<>>
  /\ result = None
  /\ last = [op |-> "new", code |-> "", kind |-> ""]
  /\ aborted = FALSE

at_root == Len(visit_stack) = 1

\* the last element of visit_stack
curr == visit_stack[Len(visit_stack)]

\* variant of RowOfChild: the shift for the `..` row is forgotten
RowOfChild_NoShift(k) == k - 1

\* the index handle_enter and get_selected_command give the k-th child
\* (k from 1) of the current group: enumerate's index, plus one below the root
RowOfChild(k) == IF at_root THEN k - 1 ELSE k

\* the first child of the current group whose row is sel, if any
ChildAtRow(sel) ==
  LET hits == {k \in DOMAIN children(curr) : RowOfChild(k) = sel}
  IN  IF hits = {} THEN None
      ELSE Some(children(curr)[CHOOSE k \in hits : \A j \in hits : k <= j])

\* a panic: the process is gone, nothing is returned
Panic ==
  /\ aborted' = TRUE
  /\ result' = None
  /\ UNCHANGED <<visit_stack, selected, preview_window_state>>

\* ----------------------------------------------------- filter, reset_selection

\* variant of Filter: filtering also returns the view to the root
Filter_BackToRoot(query) ==
  /\ ~aborted
  /\ filter_query' = query
  /\ filtered_items' = FilterTable[query]
  /\ visit_stack' = <<root_id>>
  /\ result' = None
  /\ last' = [op |-> "filter", code |-> "", kind |-> ""]
  /\ round_trip' = NoRoundTrip
  /\ UNCHANGED <<selected, preview_window_state, aborted>>

Filter(query) ==
  /\ ~aborted
  /\ filter_query' = query
  /\ filtered_items' = FilterTable[query]
  /\ result' = None
  /\ last' = [op |-> "filter", code |-> "", kind |-> ""]
  /\ round_trip' = NoRoundTrip
  /\ UNCHANGED <<visit_stack, selected, preview_window_state, aborted>>

\* variant of ResetSelection: the first row is selected whatever the list holds
ResetSelection_AlwaysFirst ==
  /\ ~aborted
  /\ selected' = Some(0)
  /\ result' = None
  /\ last' = [op |-> "reset_selection", code |-> "", kind |-> ""]
  /\ round_trip' = NoRoundTrip
  /\ UNCHANGED <<visit_stack, preview_window_state, filter_query,
                 filtered_items, aborted>>

ResetSelection ==
  /\ ~aborted
  /\ selected' = IF filtered_items # <<>> THEN Some(0) ELSE None
  /\ result' = None
  /\ last' = [op |-> "reset_selection", code |-> "", kind |-> ""]
  /\ round_trip' = NoRoundTrip
  /\ UNCHANGED <<visit_stack, preview_window_state, filter_query,
                 filtered_items, aborted>>

\* ------------------------------------------------------------ key handlers

try_scroll_up ==
  /\ selected' = IF IsSome(selected) /\ Unwrap(selected) > 0
                 THEN Some(Unwrap(selected) - 1)
                 ELSE selected
  /\ result' = None
  /\ UNCHANGED <<visit_stack, preview_window_state, aborted>>

\* `count` of try_scroll_down
ScrollCount ==
  IF filter_query = <<>> THEN Len(children(curr)) ELSE Len(filtered_items)

\* variant of ScrollDownTarget: the same clamp at the root and below it
ScrollDownTarget_Uniform(curr_selection, count) ==
  Min(curr_selection + 1, count - 1)

\* the index try_scroll_down selects when `count - 1` does not underflow
ScrollDownTarget(curr_selection, count) ==
  IF at_root THEN Min(curr_selection + 1, count - 1)
  ELSE Min(curr_selection + 1, count)

\* At the root with count = 0 the usize subtraction `count - 1` underflows:
\* a build with overflow checks panics, a build without them wraps to
\* usize::MAX, and min(curr_selection + 1, usize::MAX) is curr_selection + 1.
try_scroll_down ==
  IF selected = None
  THEN /\ result' = None
       /\ UNCHANGED <<visit_stack, selected, preview_window_state, aborted>>
  ELSE IF at_root /\ ScrollCount = 0
  THEN \/ Panic
       \/ /\ Unwrap(selected) + 1 <= MaxSelected
          /\ selected' = Some(Unwrap(selected) + 1)
          /\ result' = None
          /\ UNCHANGED <<visit_stack, preview_window_state, aborted>>
  ELSE /\ selected' = Some(ScrollDownTarget(Unwrap(selected), ScrollCount))
       /\ result' = None
       /\ UNCHANGED <<visit_stack, preview_window_state, aborted>>

\* variant of scroll_preview_window_down: the main list scrolls as well
scroll_preview_window_down_AndList ==
  /\ preview_window_state' =
       IF IsSome(preview_window_state)
          /\ Unwrap(preview_window_state).scroll + 1
               < Len(Unwrap(preview_window_state).text)
       THEN Some([Unwrap(preview_window_state) EXCEPT !.scroll = @ + 1])
       ELSE preview_window_state
  /\ selected' = IF IsSome(selected) THEN Some(Unwrap(selected) + 1) ELSE selected
  /\ result' = None
  /\ UNCHANGED <<visit_stack, aborted>>

\* variant of scroll_preview_window_down: the last line can be scrolled past
scroll_preview_window_down_PastEnd ==
  /\ preview_window_state' =
       IF IsSome(preview_window_state)
          /\ Unwrap(preview_window_state).scroll + 1
               <= Len(Unwrap(preview_window_state).text)
       THEN Some([Unwrap(preview_window_state) EXCEPT !.scroll = @ + 1])
       ELSE preview_window_state
  /\ result' = None
  /\ UNCHANGED <<visit_stack, selected, aborted>>

scroll_preview_window_down ==
  /\ preview_window_state' =
       IF IsSome(preview_window_state)
          /\ Unwrap(preview_window_state).scroll + 1
               < Len(Unwrap(preview_window_state).text)
       THEN Some([Unwrap(preview_window_state) EXCEPT !.scroll = @ + 1])
       ELSE preview_window_state
  /\ result' = None
  /\ UNCHANGED <<visit_stack, selected, aborted>>

\* variant of scroll_preview_window_up: the main list scrolls as well
scroll_preview_window_up_AndList ==
  /\ preview_window_state' =
       IF IsSome(preview_window_state)
          /\ Unwrap(preview_window_state).scroll > 0
       THEN Some([Unwrap(preview_window_state) EXCEPT !.scroll = @ - 1])
       ELSE preview_window_state
  /\ selected' = IF IsSome(selected) /\ Unwrap(selected) > 0
                 THEN Some(Unwrap(selected) - 1)
                 ELSE selected
  /\ result' = None
  /\ UNCHANGED <<visit_stack, aborted>>

scroll_preview_window_up ==
  /\ preview_window_state' =
       IF IsSome(preview_window_state)
          /\ Unwrap(preview_window_state).scroll > 0
       THEN Some([Unwrap(preview_window_state) EXCEPT !.scroll = @ - 1])
       ELSE preview_window_state
  /\ result' = None
  /\ UNCHANGED <<visit_stack, selected, aborted>>

\* variant of IsUpRow: the !at_root() test is forgotten
IsUpRow_AnyLevel(sel) == sel = 0

\* the `..` row: not at the root, and the first row is selected
IsUpRow(sel) == ~at_root /\ sel = 0

\* get_selected_command, once list_state.selected() is Some(sel)
get_selected_command(sel) ==
  IF filter_query = <<>>
  THEN IF IsUpRow(sel) THEN None
       ELSE IF IsSome(ChildAtRow(sel))
       THEN Some(tree_command[Unwrap(ChildAtRow(sel))])
       ELSE None
  ELSE IF sel < Len(filtered_items)
       THEN Some(filtered_items[sel + 1].command)
       ELSE None

\* variant of OpenPreview: a folder gets an empty preview
OpenPreview_FolderToo(selected_command) ==
  IF selected_command.kind = "Raw"
  THEN /\ preview_window_state' =
            Some(PreviewWindowState(RawLines(selected_command.arg)))
       /\ result' = None
       /\ UNCHANGED <<visit_stack, selected, aborted>>
  ELSE IF selected_command.kind = "LocalFile"
  THEN \/ Panic
       \/ \E text \in FileTexts :
            /\ preview_window_state' = Some(PreviewWindowState(text))
            /\ result' = None
            /\ UNCHANGED <<visit_stack, selected, aborted>>
  ELSE /\ preview_window_state' = Some(PreviewWindowState(<<>>))
       /\ result' = None
       /\ UNCHANGED <<visit_stack, selected, aborted>>

\* Showing the preview of a selected command: the lines of a Raw command, the
\* lines of the script file of a LocalFile command, whose read may fail (the
\* unwrap of the Err panics), and nothing for a folder (Command::None).
OpenPreview(selected_command) ==
  IF selected_command.kind = "Raw"
  THEN /\ preview_window_state' =
            Some(PreviewWindowState(RawLines(selected_command.arg)))
       /\ result' = None
       /\ UNCHANGED <<visit_stack, selected, aborted>>
  ELSE IF selected_command.kind = "LocalFile"
  THEN \/ Panic
       \/ \E text \in FileTexts :
            /\ preview_window_state' = Some(PreviewWindowState(text))
            /\ result' = None
            /\ UNCHANGED <<visit_stack, selected, aborted>>
  ELSE /\ result' = None
       /\ UNCHANGED <<visit_stack, selected, preview_window_state, aborted>>

\* Opening the preview panics when nothing is selected (unwrap of None).
toggle_preview_window ==
  IF IsSome(preview_window_state)
  THEN /\ preview_window_state' = None
       /\ result' = None
       /\ UNCHANGED <<visit_stack, selected, aborted>>
  ELSE IF selected = None
  THEN Panic
  ELSE IF IsSome(get_selected_command(Unwrap(selected)))
  THEN OpenPreview(Unwrap(get_selected_command(Unwrap(selected))))
  ELSE /\ result' = None
       /\ UNCHANGED <<visit_stack, selected, preview_window_state, aborted>>

\* the filter-active branch of handle_enter
EnterFiltered(sel) ==
  IF sel < Len(filtered_items)
  THEN Some(filtered_items[sel + 1].command)
  ELSE None

\* variant of Ascend: two entries are popped
Ascend_PopTwice ==
  /\ visit_stack' = SubSeq(visit_stack, 1, Len(visit_stack) - 2)
  /\ selected' = Some(0)
  /\ result' = None

\* go up the directory
Ascend ==
  /\ visit_stack' = SubSeq(visit_stack, 1, Len(visit_stack) - 1)
  /\ selected' = Some(0)
  /\ result' = None

\* variant of Descend: the selection is not reset
Descend_KeepSelection(node) ==
  /\ visit_stack' = Append(visit_stack, node)
  /\ selected' = selected
  /\ result' = None

\* go down into the directory `node`
Descend(node) ==
  /\ visit_stack' = Append(visit_stack, node)
  /\ selected' = Some(0)
  /\ result' = None

handle_enter ==
  LET sel == IF selected = None THEN 0 ELSE Unwrap(selected)
  IN  /\ UNCHANGED <<preview_window_state, aborted>>
      /\ IF filter_query = <<>>
         THEN IF IsUpRow(sel)
              THEN Ascend
              ELSE IF IsSome(ChildAtRow(sel))
              THEN IF has_children(Unwrap(ChildAtRow(sel)))
                   THEN Descend(Unwrap(ChildAtRow(sel)))
                   ELSE /\ result' = Some(tree_command[Unwrap(ChildAtRow(sel))])
                        /\ selected' = Some(sel)
                        /\ UNCHANGED visit_stack
              ELSE /\ result' = None
                   /\ selected' = Some(sel)
                   /\ UNCHANGED visit_stack
         ELSE /\ result' = EnterFiltered(sel)
              /\ selected' = Some(sel)
              /\ UNCHANGED visit_stack

\* what the history variable holds after a key event
RoundTripAfterKey ==
  IF preview_window_state = None /\ preview_window_state' # None
  THEN [phase |-> "open", visit_stack |-> visit_stack,
        filter_query |-> filter_query, selected |-> selected, keyed |-> FALSE]
  ELSE IF preview_window_state # None /\ round_trip.phase = "open"
  THEN IF preview_window_state' # None
       THEN [round_trip EXCEPT !.keyed = TRUE]
       ELSE [round_trip EXCEPT !.phase = "closed"]
  ELSE NoRoundTrip

\* variant of Ignored: Release events are handled like the others
Ignored_Never(event) == FALSE

\* only Press and Repeat events are handled
Ignored(event) == event.kind = "Release"

HandleKey(event) ==
  /\ ~aborted
  /\ last' = [op |-> "handle_key", code |-> event.code, kind |-> event.kind]
  /\ UNCHANGED <<filter_query, filtered_items>>
  /\ IF Ignored(event)
     THEN /\ result' = None
          /\ UNCHANGED <<visit_stack, selected, preview_window_state, aborted>>
     ELSE CASE event.code \in {"j", "Down"} ->
                 IF IsSome(preview_window_state)
                 THEN scroll_preview_window_down
                 ELSE try_scroll_down
            [] event.code \in {"k", "Up"} ->
                 IF IsSome(preview_window_state)
                 THEN scroll_preview_window_up
                 ELSE try_scroll_up
            [] event.code = "p" -> toggle_preview_window
            [] event.code = "Enter" ->
                 IF preview_window_state = None
                 THEN handle_enter
                 ELSE /\ result' = None
                      /\ UNCHANGED <<visit_stack, selected,
                                     preview_window_state, aborted>>
            [] OTHER ->
                 /\ result' = None
                 /\ UNCHANGED <<visit_stack, selected, preview_window_state,
                                aborted>>
  /\ round_trip' = RoundTripAfterKey

Next ==
  \/ \E query \in Queries : Filter(query)
  \/ ResetSelection
  \/ \E event \in KeyEvents : HandleKey(event)

Spec == Init /\ [][Next]_vars

\* filter alone, over the wide set of queries
NextFilter == \E query \in WideQueries : Filter(query)

SpecFilter == Init /\ [][NextFilter]_vars

\* ------------------------------------------------------------ what is drawn

\* item_list of draw, as the names of its rows (".." is the synthetic up row)
item_list ==
  IF filter_query = <<>>
  THEN (IF ~at_root THEN << <<46,46>> >> ELSE <<>>)
       \o [k \in DOMAIN children(curr) |-> tree_name[children(curr)[k]]]
  ELSE [k \in DOMAIN filtered_items |-> sorted_items(filtered_items)[k].name]

\* the number of rows of the visible list
visible_count ==
  IF filter_query = <<>>
  THEN Len(children(curr)) + (IF at_root THEN 0 ELSE 1)
  ELSE Len(filtered_items)

\* a key event that is handled (not a release) with one of the given codes
Pressed(event, codes) == event.kind # "Release" /\ event.code \in codes

\* ------------------------------------------------------------------ claims

\* the handled (press or repeat) key events with one of the given codes
PressesOf(codes) == [code : codes, kind : {"Press", "Repeat"}]

\* C1: with the filter active and the preview closed, Enter with selection i
\* returns the Action of the i-th item of the filtered results sorted by
\* name, the row displayed at index i.
C1_EnterReturnsDisplayedRow ==
  [][\A event \in PressesOf({"Enter"}) :
       ( /\ filter_query # <<>>
         /\ preview_window_state = None
         /\ IsSome(selected)
         /\ Unwrap(selected) < Len(filtered_items)
         /\ HandleKey(event) )
       => result' =
            Some(sorted_items(filtered_items)[Unwrap(selected) + 1].command)]_vars

\* C2: from a selection within [0, visible_count), move_down and move_up keep
\* the selection within [0, visible_count), at the root or inside a group,
\* with the filter active or not.
C2_MoveKeepsSelectionInRange ==
  [][\A event \in PressesOf({"j", "Down", "k", "Up"}) :
       ( /\ preview_window_state = None
         /\ IsSome(selected)
         /\ Unwrap(selected) < visible_count
         /\ HandleKey(event) )
       => ( /\ ~aborted'
            /\ IsSome(selected')
            /\ Unwrap(selected') >= 0
            /\ Unwrap(selected') < visible_count' )]_vars

\* C3: in every reachable state the selection is within [0, visible_count)
\* when the visible list is not empty, and None when it is empty.
C3_SelectionAlwaysValid ==
  IF visible_count > 0
  THEN IsSome(selected) /\ Unwrap(selected) >= 0 /\ Unwrap(selected) < visible_count
  ELSE selected = None

\* the child of the current group that row sel of the navigation view shows
\* (the displayed index minus one when not at the root), if any
DesignatedChild(sel) ==
  LET i == IF at_root THEN sel ELSE sel - 1
  IN  IF i >= 0 /\ i < Len(children(curr))
      THEN Some(children(curr)[i + 1])
      ELSE None

\* the navigation view is shown, the preview is closed and a row is selected
NavigationView ==
  /\ filter_query = <<>>
  /\ preview_window_state = None
  /\ IsSome(selected)

\* C4: with the filter inactive and the preview closed, Enter on a command
\* returns exactly that node's Action and leaves the visit stack and the
\* selection unchanged.
C4_EnterOnCommand ==
  [][\A event \in PressesOf({"Enter"}) :
       ( /\ NavigationView
         /\ IsSome(DesignatedChild(Unwrap(selected)))
         /\ tree_children[Unwrap(DesignatedChild(Unwrap(selected)))] = <<>>
         /\ HandleKey(event) )
       => ( /\ result' =
                 Some(tree_command[Unwrap(DesignatedChild(Unwrap(selected)))])
            /\ visit_stack' = visit_stack
            /\ selected' = selected )]_vars

\* a command inside a group has been run with Enter
C4_Witness ==
  /\ last = [op |-> "handle_key", code |-> "Enter", kind |-> "Press"]
  /\ filter_query = <<>>
  /\ Len(visit_stack) = 2
  /\ selected = Some(2)
  /\ result = Some(tree_command[children(curr)[2]])

\* C5: with the filter inactive and the preview closed, Enter on a group
\* pushes exactly that child onto the visit stack, resets the selection to 0
\* and returns no Action.
C5_EnterOnGroup ==
  [][\A event \in PressesOf({"Enter"}) :
       ( /\ NavigationView
         /\ IsSome(DesignatedChild(Unwrap(selected)))
         /\ tree_children[Unwrap(DesignatedChild(Unwrap(selected)))] # <<>>
         /\ HandleKey(event) )
       => ( /\ visit_stack' =
                 Append(visit_stack, Unwrap(DesignatedChild(Unwrap(selected))))
            /\ selected' = Some(0)
            /\ result' = None )]_vars

\* Enter has descended into the third child of the root
C5_Witness ==
  /\ last = [op |-> "handle_key", code |-> "Enter", kind |-> "Press"]
  /\ filter_query = <<>>
  /\ preview_window_state = None
  /\ visit_stack = <<root_id, tree_children[root_id][3]>>
  /\ selected = Some(0)
  /\ result = None

\* C6: with the filter inactive, the preview closed and the view not at the
\* root, Enter on row 0 (the up row) pops exactly one entry from the visit
\* stack, resets the selection to 0 and returns no Action.
C6_EnterOnUpRow ==
  [][\A event \in PressesOf({"Enter"}) :
       ( /\ NavigationView
         /\ selected = Some(0)
         /\ Len(visit_stack) > 1
         /\ HandleKey(event) )
       => ( /\ visit_stack' = SubSeq(visit_stack, 1, Len(visit_stack) - 1)
            /\ Len(visit_stack') = Len(visit_stack) - 1
            /\ selected' = Some(0)
            /\ result' = None )]_vars

\* Enter has gone back up to the root: at the root, Enter on row 0 would
\* have descended, and on any other row would have left that row selected
C6_Witness ==
  /\ last = [op |-> "handle_key", code |-> "Enter", kind |-> "Repeat"]
  /\ filter_query = <<>>
  /\ preview_window_state = None
  /\ visit_stack = <<root_id>>
  /\ selected = Some(0)
  /\ result = None

\* C7: the visit stack is a non-empty root-first path of group nodes: its
\* first entry is the root, every later entry is a child, with children of its
\* own, of the entry before it; it is never popped below length 1.
C7_VisitStackIsPath ==
  /\ Len(visit_stack) >= 1
  /\ visit_stack[1] = root_id
  /\ \A i \in 2..Len(visit_stack) :
       /\ \E k \in DOMAIN tree_children[visit_stack[i - 1]] :
            tree_children[visit_stack[i - 1]][k] = visit_stack[i]
       /\ tree_children[visit_stack[i]] # <<>>

\* the view is inside a group after Enter was pressed
C7_Witness ==
  /\ last.code = "Enter"
  /\ Len(visit_stack) = 2
  /\ tree_children[curr] # <<>>

\* name, lowercased, holds q, lowercased, as a substring
MatchesQuery(name, q) ==
  \E off \in 0..Len(name) :
    /\ off + Len(q) <= Len(name)
    /\ \A j \in 1..Len(q) :
         (IF name[off + j] \in 65..90 THEN name[off + j] + 32 ELSE name[off + j])
           = (IF q[j] \in 65..90 THEN q[j] + 32 ELSE q[j])

\* the leaves of the tree whose name matches q
MatchingLeaves(q) ==
  {n \in NodeIds : tree_children[n] = <<>> /\ MatchesQuery(tree_name[n], q)}

\* C8: filter(q) leaves in filtered_items exactly the leaves of the tree whose
\* lowercased name contains the lowercased q, each once; no group and not the
\* root, even when its name matches; the previous result is replaced.
C8_FilterKeepsMatchingLeaves ==
  last.op = "filter" =>
    /\ Len(filtered_items) = Cardinality(MatchingLeaves(filter_query))
    /\ {filtered_items[i] : i \in DOMAIN filtered_items}
         = {[name |-> tree_name[n], command |-> tree_command[n]] :
              n \in MatchingLeaves(filter_query)}

\* filter("se"): six leaves match; "System Setup" and "Security" match by
\* name and are groups
C8_Witness ==
  /\ last.op = "filter"
  /\ filter_query = <<115, 101>>
  /\ Len(filtered_items) = 6
  /\ \E n \in NodeIds :
       tree_children[n] # <<>> /\ MatchesQuery(tree_name[n], filter_query)

\* the rows of the navigation view of the group on top of stack
NavigationRows(stack) ==
  (IF Len(stack) > 1 THEN << <<46, 46>> >> ELSE <<>>)
  \o [k \in DOMAIN tree_children[stack[Len(stack)]] |->
        tree_name[tree_children[stack[Len(stack)]][k]]]

\* C9: neither filter(q) nor a key event handled while the filter is active
\* changes the visit stack, and filter("") shows the navigation view (the
\* children and the up row) of the group the stack already named.
C9_FilterKeepsVisitStack ==
  [][ /\ \A query \in Queries :
           Filter(query) =>
             /\ visit_stack' = visit_stack
             /\ (query = <<>> => item_list' = NavigationRows(visit_stack))
      /\ \A event \in KeyEvents :
           (filter_query # <<>> /\ HandleKey(event)) =>
             visit_stack' = visit_stack ]_vars

\* inside a group with the filter active, Enter has returned an Action
C9_Witness ==
  /\ last = [op |-> "handle_key", code |-> "Enter", kind |-> "Press"]
  /\ filter_query # <<>>
  /\ Len(visit_stack) = 2
  /\ IsSome(result)

\* C10: while the preview is open no key event changes the selection, the
\* visit stack or the filter, and none returns an Action: down/j and up/k
\* only scroll the preview, Enter is swallowed, only p closes the preview.
C10_PreviewOpenFrame ==
  [][\A event \in KeyEvents :
       (IsSome(preview_window_state) /\ HandleKey(event)) =>
         /\ selected' = selected
         /\ visit_stack' = visit_stack
         /\ filter_query' = filter_query
         /\ filtered_items' = filtered_items
         /\ result' = None
         /\ ~aborted'
         /\ IF Pressed(event, {"p"})
            THEN preview_window_state' = None
            ELSE /\ IsSome(preview_window_state')
                 /\ Unwrap(preview_window_state').text
                      = Unwrap(preview_window_state).text
                 /\ Unwrap(preview_window_state').scroll
                      \in IF Pressed(event, {"j", "Down"})
                          THEN { Unwrap(preview_window_state).scroll,
                                 Unwrap(preview_window_state).scroll + 1 }
                          ELSE IF Pressed(event, {"k", "Up"})
                          THEN { Unwrap(preview_window_state).scroll,
                                 Unwrap(preview_window_state).scroll - 1 }
                          ELSE { Unwrap(preview_window_state).scroll } ]_vars

\* Enter was pressed while a scrolled preview was open
C10_Witness ==
  /\ last = [op |-> "handle_key", code |-> "Enter", kind |-> "Press"]
  /\ IsSome(preview_window_state)
  /\ Unwrap(preview_window_state).scroll > 0
  /\ result = None

\* C11: the toggle-preview key, pressed while the preview is closed and the
\* selected row is a group or the up row, opens no preview and leaves the
\* selection, the visit stack and the filter unchanged.
C11_ToggleOnGroupOrUpRow ==
  [][\A event \in PressesOf({"p"}) :
       ( /\ NavigationView
         /\ \/ Len(visit_stack) > 1 /\ selected = Some(0)
            \/ /\ IsSome(DesignatedChild(Unwrap(selected)))
               /\ tree_children[Unwrap(DesignatedChild(Unwrap(selected)))] # <<>>
         /\ HandleKey(event) )
       => ( /\ preview_window_state' = None
            /\ selected' = selected
            /\ visit_stack' = visit_stack
            /\ filter_query' = filter_query
            /\ filtered_items' = filtered_items
            /\ result' = None
            /\ ~aborted' )]_vars

\* p was pressed at the root with the group "Security" selected
C11_Witness ==
  /\ last = [op |-> "handle_key", code |-> "p", kind |-> "Press"]
  /\ filter_query = <<>>
  /\ visit_stack = <<root_id>>
  /\ selected = Some(1)
  /\ tree_children[tree_children[root_id][2]] # <<>>
  /\ preview_window_state = None
  /\ ~aborted

\* C12: round trip: from a state with the preview closed, opening the
\* preview, pressing any keys other than p and closing it restores the visit
\* stack, the filter query and the selection; the preview state is discarded.
C12_PreviewRoundTrip ==
  round_trip.phase = "closed" =>
    /\ preview_window_state = None
    /\ visit_stack = round_trip.visit_stack
    /\ filter_query = round_trip.filter_query
    /\ selected = round_trip.selected
    /\ ~aborted

\* a preview opened on a filtered row inside a group was closed after other
\* keys had been pressed
C12_Witness ==
  /\ round_trip.phase = "closed"
  /\ round_trip.keyed
  /\ filter_query # <<>>
  /\ Len(visit_stack) = 2
  /\ IsSome(selected) /\ Unwrap(selected) > 0

\* the scroll offset after scroll_down: one more unless at the last line
ScrolledDown(pw) ==
  IF Len(pw.text) > 0 /\ pw.scroll < Len(pw.text) - 1
  THEN pw.scroll + 1
  ELSE pw.scroll

\* the scroll offset after scroll_up: one less, floored at 0
ScrolledUp(pw) == IF pw.scroll > 0 THEN pw.scroll - 1 ELSE 0

\* C13: the scroll offset of the preview is 0 right after opening, stays
\* within [0, number of lines - 1] (0 when there are no lines); scroll_down
\* adds 1 unless at the last line, scroll_up subtracts 1 floored at 0.
C13_PreviewScroll ==
  [][ /\ IsSome(preview_window_state') =>
           /\ Unwrap(preview_window_state').scroll >= 0
           /\ Unwrap(preview_window_state').scroll
                <= (IF Len(Unwrap(preview_window_state').text) = 0 THEN 0
                    ELSE Len(Unwrap(preview_window_state').text) - 1)
      /\ (preview_window_state = None /\ IsSome(preview_window_state')) =>
           Unwrap(preview_window_state').scroll = 0
      /\ \A event \in PressesOf({"j", "Down"}) :
           (IsSome(preview_window_state) /\ HandleKey(event)) =>
             preview_window_state' =
               Some([text |-> Unwrap(preview_window_state).text,
                     scroll |-> ScrolledDown(Unwrap(preview_window_state))])
      /\ \A event \in PressesOf({"k", "Up"}) :
           (IsSome(preview_window_state) /\ HandleKey(event)) =>
             preview_window_state' =
               Some([text |-> Unwrap(preview_window_state).text,
                     scroll |-> ScrolledUp(Unwrap(preview_window_state))]) ]_vars

\* scroll_down was pressed on the last line of a preview of several lines
C13_Witness ==
  /\ last = [op |-> "handle_key", code |-> "Down", kind |-> "Press"]
  /\ IsSome(preview_window_state)
  /\ Len(Unwrap(preview_window_state).text) >= 2
  /\ Unwrap(preview_window_state).scroll
       = Len(Unwrap(preview_window_state).text) - 1

\* C14: the toggle-preview key on a command whose Action is a LocalFile does
\* not terminate the process when the file read fails: the preview stays
\* closed and the rest of the state is unchanged.  (Stated for the navigation
\* view; the read either succeeds, and the preview opens, or fails.)
C14_ReadFailureIsRecoverable ==
  [][\A event \in PressesOf({"p"}) :
       ( /\ NavigationView
         /\ IsSome(DesignatedChild(Unwrap(selected)))
         /\ tree_command[Unwrap(DesignatedChild(Unwrap(selected)))].kind
              = "LocalFile"
         /\ HandleKey(event) )
       => ( /\ ~aborted'
            /\ selected' = selected
            /\ visit_stack' = visit_stack
            /\ filter_query' = filter_query
            /\ filtered_items' = filtered_items )]_vars

\* C15: every Action a key event returns is the Action of a leaf of the tree
\* and never the group placeholder; at most one is returned, and only for
\* Enter with the preview closed.
C15_ReturnedActionIsLeafAction ==
  /\ Len(result) <= 1
  /\ IsSome(result) =>
       /\ last.op = "handle_key"
       /\ last.code = "Enter"
       /\ last.kind \in {"Press", "Repeat"}
       /\ preview_window_state = None
       /\ Unwrap(result).kind # "None"
       /\ \E n \in NodeIds :
            tree_children[n] = <<>> /\ tree_command[n] = Unwrap(result)

\* Enter has returned a Raw command from the navigation view
C15_Witness ==
  /\ IsSome(result)
  /\ Unwrap(result).kind = "Raw"
  /\ filter_query = <<>>

\* C16: a key event of kind release is a no-op for every key code and in
\* every mode: it changes no state and returns no Action.
C16_ReleaseIsNoOp ==
  [][\A event \in [code : KeyCodes, kind : {"Release"}] :
       HandleKey(event) =>
         /\ selected' = selected
         /\ visit_stack' = visit_stack
         /\ filter_query' = filter_query
         /\ filtered_items' = filtered_items
         /\ preview_window_state' = preview_window_state
         /\ aborted' = aborted
         /\ result' = None ]_vars

\* Enter was released at the root with the first group selected
C16_Witness ==
  /\ last = [op |-> "handle_key", code |-> "Enter", kind |-> "Release"]
  /\ filter_query = <<>>
  /\ preview_window_state = None
  /\ visit_stack = <<root_id>>
  /\ selected = Some(0)

\* C17 as stated: move_down with selection Some(i) selects
\* min(i+1, visible_count - 1) at the root and min(i+1, visible_count) below
\* it, visible_count counting the up row.  (Stated for a visible list that is
\* not empty; the empty list is the case of C19.)
C17_MoveDownAsClaimed ==
  [][\A event \in PressesOf({"j", "Down"}) :
       ( /\ preview_window_state = None
         /\ IsSome(selected)
         /\ visible_count > 0
         /\ HandleKey(event) )
       => selected' =
            Some(IF Len(visit_stack) = 1
                 THEN Min(Unwrap(selected) + 1, visible_count - 1)
                 ELSE Min(Unwrap(selected) + 1, visible_count))]_vars

\* the number of rows below the up row: the children of the current group,
\* or the filtered results when the filter is active
RowsBelowUpRow ==
  IF filter_query = <<>>
  THEN Len(tree_children[visit_stack[Len(visit_stack)]])
  ELSE Len(filtered_items)

\* C17, amended: move_down with selection Some(i) selects min(i+1, count - 1)
\* at the root and min(i+1, count) below it, where count does not count the
\* up row; at the root with count = 0 the subtraction underflows and the call
\* panics or selects i+1.
C17_MoveDownClamp ==
  [][\A event \in PressesOf({"j", "Down"}) :
       ( /\ preview_window_state = None
         /\ IsSome(selected)
         /\ HandleKey(event) )
       => IF Len(visit_stack) = 1 /\ RowsBelowUpRow = 0
          THEN aborted' \/ selected' = Some(Unwrap(selected) + 1)
          ELSE /\ ~aborted'
               /\ selected' =
                    Some(IF Len(visit_stack) = 1
                         THEN Min(Unwrap(selected) + 1, RowsBelowUpRow - 1)
                         ELSE Min(Unwrap(selected) + 1, RowsBelowUpRow))]_vars

\* below the root with the filter active, move_down has reached the index
\* just past the last filtered row
C17_Witness ==
  /\ last = [op |-> "handle_key", code |-> "j", kind |-> "Press"]
  /\ filter_query # <<>>
  /\ Len(visit_stack) = 2
  /\ Len(filtered_items) > 0
  /\ selected = Some(Len(filtered_items))

\* C18: after filter(q) followed by reset_selection() the selection is
\* Some(0) if the visible list under the new query is not empty, and None if
\* it is empty.
C18_ResetAfterFilter ==
  [][(last.op = "filter" /\ ResetSelection)
       => selected' = IF visible_count' > 0 THEN Some(0) ELSE None]_vars

\* inside a group, the filter was cleared and the selection reset
C18_Witness ==
  /\ last.op = "reset_selection"
  /\ filter_query = <<>>
  /\ filtered_items # <<>>
  /\ Len(visit_stack) = 2
  /\ selected = Some(0)

\* C19: move_down with an empty visible list (the filter active, no match)
\* does not underflow `count - 1` and selects no index: the selection stays
\* None or is left unchanged.
C19_MoveDownOnEmptyList ==
  [][\A event \in PressesOf({"j", "Down"}) :
       ( /\ preview_window_state = None
         /\ filter_query # <<>>
         /\ filtered_items = <<>>
         /\ HandleKey(event) )
       => ( /\ ~aborted'
            /\ selected' = selected )]_vars

\* C20: the toggle-preview key with the preview closed and no row selected is
\* a no-op: no preview opens, the state is unchanged, the process goes on.
C20_ToggleWithoutSelection ==
  [][\A event \in PressesOf({"p"}) :
       ( /\ preview_window_state = None
         /\ selected = None
         /\ HandleKey(event) )
       => ( /\ ~aborted'
            /\ preview_window_state' = None
            /\ selected' = None
            /\ visit_stack' = visit_stack
            /\ filter_query' = filter_query
            /\ filtered_items' = filtered_items )]_vars

====
